---- MODULE Spec2Model ----
(***************************************************************************)
(* The user API of the banking demo: POST /users, POST /auth/login and     *)
(* GET / PATCH / DELETE /users/{userId}.  Every handler is an async        *)
(* function; each `await` on the store or on the hasher is a point where   *)
(* another request may run, so a handler is one action per segment between *)
(* two awaits.  JSON objects are functions from the keys that are present  *)
(* to their values; `null` is the record Null.                             *)
(***************************************************************************)
EXTENDS Integers, Sequences, FiniteSets, TLC

VARIABLES
    store,      \* the users table: the set of user rows
    nextId,     \* how many ids the store has generated (cuid)
    now,        \* the server clock, in hours
    secret,     \* the signing secret in force (JWT_SECRET)
    issued,     \* the tokens clients have received and still hold
    registered, \* history: for each id ever created, the body that registered it
    req,        \* per connection: the request in flight, if any
    sent,       \* the response the last step sent, with its request, or Null
    ui          \* the form the browser shows, its state and what it did, or Null

vars == <<store, nextId, now, secret, issued, registered, req, sent, ui>>

----------------------------------------------------------------------------
(* Bounds of the model *)

MaxUsers == 2       \* rows the store ever creates
MaxTime == 36       \* the clock stops here
MaxTokens == 1      \* tokens the clients keep

Conns == {"c1", "c2"}

----------------------------------------------------------------------------
(* JSON values *)

Null == [null |-> TRUE]

EmptyObject == [k \in {} |-> ""]

Has(obj, k) == k \in DOMAIN obj

\* obj without the keys in ks ( `const { password: _, ...rest } = user` )
Omit(obj, ks) == [k \in (DOMAIN obj) \ ks |-> obj[k]]

\* obj restricted to the keys in ks
Pick(obj, ks) == [k \in (DOMAIN obj) \cap ks |-> obj[k]]

\* { ...a, ...b }
Merge(a, b) == [k \in (DOMAIN a) \cup (DOMAIN b) |-> IF k \in DOMAIN b THEN b[k] ELSE a[k]]

\* new Date(isoString)
Date(iso) == [date |-> iso]

\* Array.prototype.join
RECURSIVE Join(_, _)
Join(msgs, sep) ==
    IF Len(msgs) = 0 THEN ""
    ELSE IF Len(msgs) = 1 THEN msgs[1]
    ELSE msgs[1] \o sep \o Join(Tail(msgs), sep)

----------------------------------------------------------------------------
(* src/lib/errors.ts *)

\* an error response that carries its text under another member
createMessageResponse(message, statusCode) ==
    [status |-> statusCode, body |-> [message |-> message]]

createErrorResponse(message, statusCode) ==
    [status |-> statusCode, body |-> [error |-> message]]

\* a report of the first issue only
handleFirstValidationError(errors) ==
    createErrorResponse("Validation error: " \o errors[1], 400)

handleValidationError(errors) ==
    createErrorResponse("Validation error: " \o Join(errors, ", "), 400)

\* Response.json(data, { status })
jsonResponse(data, statusCode) == [status |-> statusCode, body |-> data]

----------------------------------------------------------------------------
(* Strings *)

Char(s, i) == SubSeq(s, i, i)

StartsWith(s, prefix) ==
    /\ Len(s) >= Len(prefix)
    /\ SubSeq(s, 1, Len(prefix)) = prefix

\* a `string | null` that holds the string s
Str(s) == [v |-> s]

\* a test for null alone, which lets the empty string through
Nullish(x) == x = Null

\* JavaScript's !x for a `string | null`
Falsy(x) == x = Null \/ x.v = ""

----------------------------------------------------------------------------
(* src/lib/validations.ts (zod) *)

MaxNameLen == 100
MinPasswordLen == 8

\* z.string().email(): one "@", a non-empty local part, a dotted domain
IsEmail(s) ==
    LET ats == {i \in 1..Len(s) : Char(s, i) = "@"}
    IN  /\ Cardinality(ats) = 1
        /\ \E i \in ats :
              /\ i > 1
              /\ \E j \in (i + 2)..(Len(s) - 2) : Char(s, j) = "."

\* z.string().datetime(): YYYY-MM-DDTHH:MM:SS[.sss]Z
IsDatetime(s) ==
    /\ Len(s) \in {20, 24}
    /\ Char(s, 5) = "-"
    /\ Char(s, 8) = "-"
    /\ Char(s, 11) = "T"
    /\ Char(s, Len(s)) = "Z"

\* the issues of one required string field
Required(obj, k, rules) == IF Has(obj, k) THEN rules ELSE <<"Required">>

\* the issues of one optional string field
Optional(obj, k, rules) == IF Has(obj, k) THEN rules ELSE <<>>

Rule(ok, message) == IF ok THEN <<>> ELSE <<message>>

TooLong == "String must contain at most 100 character(s)"
TooShort == "String must contain at least 1 character(s)"

createUserSchemaKeys ==
    {"email", "firstName", "lastName", "phoneNumber", "address", "dateOfBirth", "password"}

\* a registration schema whose name bound is exclusive
createUserSchemaErrorsBelow(body) ==
    Required(body, "email", Rule(IsEmail(body.email), "Invalid email address"))
    \o Required(body, "firstName",
            Rule(Len(body.firstName) >= 1, "First name is required")
            \o Rule(Len(body.firstName) < MaxNameLen, TooLong))
    \o Required(body, "lastName",
            Rule(Len(body.lastName) >= 1, "Last name is required")
            \o Rule(Len(body.lastName) < MaxNameLen, TooLong))
    \o Optional(body, "dateOfBirth", Rule(IsDatetime(body.dateOfBirth), "Invalid datetime"))
    \o Required(body, "password",
            Rule(Len(body.password) >= MinPasswordLen,
                 "Password must be at least 8 characters long"))

\* the issues of createUserSchema.safeParse(body), in the schema's order
createUserSchemaErrors(body) ==
    Required(body, "email", Rule(IsEmail(body.email), "Invalid email address"))
    \o Required(body, "firstName",
            Rule(Len(body.firstName) >= 1, "First name is required")
            \o Rule(Len(body.firstName) <= MaxNameLen, TooLong))
    \o Required(body, "lastName",
            Rule(Len(body.lastName) >= 1, "Last name is required")
            \o Rule(Len(body.lastName) <= MaxNameLen, TooLong))
    \o Optional(body, "dateOfBirth", Rule(IsDatetime(body.dateOfBirth), "Invalid datetime"))
    \o Required(body, "password",
            Rule(Len(body.password) >= MinPasswordLen,
                 "Password must be at least 8 characters long"))

updateUserSchemaKeys ==
    {"firstName", "lastName", "phoneNumber", "address", "dateOfBirth"}

\* the issues of updateUserSchema.safeParse(body), in the schema's order
updateUserSchemaErrors(body) ==
    Optional(body, "firstName",
            Rule(Len(body.firstName) >= 1, TooShort)
            \o Rule(Len(body.firstName) <= MaxNameLen, TooLong))
    \o Optional(body, "lastName",
            Rule(Len(body.lastName) >= 1, TooShort)
            \o Rule(Len(body.lastName) <= MaxNameLen, TooLong))
    \o Optional(body, "dateOfBirth", Rule(IsDatetime(body.dateOfBirth), "Invalid datetime"))

loginSchemaKeys == {"email", "password"}

\* the issues of loginSchema.safeParse(body), in the schema's order
loginSchemaErrors(body) ==
    Required(body, "email", Rule(IsEmail(body.email), "Invalid email address"))
    \o Required(body, "password", Rule(Len(body.password) >= 1, "Password is required"))

----------------------------------------------------------------------------
(* Values the clients send *)

\* the ids the store generates (cuid), in order
Id(n) == "u" \o ToString(n)

AllIds == {Id(n) : n \in 1..MaxUsers}

AllEmails == {"a@x.io", "b@x.io"}

Passwords == {"password1", "password2"}

Birthday == "1990-01-01T00:00:00.000Z"

Ann ==
    [email |-> "a@x.io", firstName |-> "Ann", lastName |-> "Lee", password |-> "password1"]

Bob ==
    [email |-> "b@x.io", firstName |-> "Bob", lastName |-> "Ray", phoneNumber |-> "555",
     dateOfBirth |-> Birthday, password |-> "password2"]

\* a request body that is not JSON
Unparseable == [syntaxError |-> TRUE]

RegisterBodies ==
    {Ann, Bob, [email |-> "a.x.io", firstName |-> "", lastName |-> "Lee", password |-> "pw"],
     Unparseable}

LoginBodies ==
    {[email |-> "a@x.io", password |-> p] : p \in Passwords}
    \cup {[email |-> "a.x.io", password |-> ""], Unparseable}

\* a profile update that also carries keys the update schema does not know
Profile ==
    [firstName |-> "Zoe", phoneNumber |-> "", email |-> "b@x.io", password |-> "password2"]

UpdateBodies ==
    {EmptyObject,
     [firstName |-> "Zoe"],
     [firstName |-> "", lastName |-> "Lee"],
     Unparseable}

\* the request headers a client may send, given the tokens clients hold
Headers(tokens) ==
    {EmptyObject, [authorization |-> "Bearer "], [authorization |-> "Bearer junk"]}
    \cup {[authorization |-> "Bearer " \o t] : t \in tokens}

----------------------------------------------------------------------------
(* src/lib/auth.ts: jsonwebtoken and bcryptjs behind five helpers *)

TokenTTL == 24          \* expiresIn: '24h'
SaltRounds == 12        \* bcrypt.hash(password, 12)

DefaultSecret == "your-secret-key"
Secrets == {DefaultSecret, "rotated-key"}

Salts == {"saltA"}

\* jwt.sign(claims, key, { expiresIn }) at time iat
Sign(claims, iat, key) ==
    "jwt." \o claims.userId \o "/" \o claims.email \o "/" \o ToString(iat)
        \o "+" \o ToString(TokenTTL) \o "." \o key

\* generateToken(payload)
generateToken(claims) == Sign(claims, now, secret)

\* bcrypt.hash(password, 12) with the salt it drew
hashPassword(password, salt) ==
    "$2a$" \o ToString(SaltRounds) \o "$" \o salt \o "$" \o password

\* bcrypt.compare(password, digest): rehash with the digest's own salt
comparePassword(password, digest) ==
    \E salt \in Salts : hashPassword(password, salt) = digest

\* every token the signer can produce, with what was signed
Signable == [userId : AllIds, email : AllEmails] \X (0..MaxTime) \X Secrets

Decode == [t \in {Sign(x[1], x[2], x[3]) : x \in Signable} |->
              CHOOSE x \in Signable : Sign(x[1], x[2], x[3]) = t]

\* a verification that does not look at the key the token was signed with
verifyTokenAnyKey(token) ==
    IF token \notin DOMAIN Decode THEN Null
    ELSE IF now >= Decode[token][2] + TokenTTL THEN Null
    ELSE Decode[token][1]

\* a verification that does not look at the expiry of the token
verifyTokenForever(token) ==
    IF token \notin DOMAIN Decode THEN Null
    ELSE IF Decode[token][3] # secret THEN Null
    ELSE Decode[token][1]

\* jwt.verify(token, secret) inside try/catch: the claims, or null when the
\* token is malformed, signed with another key or expired
verifyToken(token) ==
    IF token \notin DOMAIN Decode THEN Null
    ELSE IF Decode[token][3] # secret THEN Null
    ELSE IF now >= Decode[token][2] + TokenTTL THEN Null
    ELSE Decode[token][1]

\* an extraction that takes the scheme in either case
getTokenFromHeaderAnyCase(authHeader) ==
    IF authHeader = Null THEN Null
    ELSE IF authHeader.v = "" THEN Null
    ELSE IF ~StartsWith(authHeader.v, "Bearer ") /\ ~StartsWith(authHeader.v, "bearer ")
        THEN Null
    ELSE Str(SubSeq(authHeader.v, Len("Bearer ") + 1, Len(authHeader.v)))

\* getTokenFromHeader(authHeader)
getTokenFromHeader(authHeader) ==
    IF authHeader = Null THEN Null
    ELSE IF authHeader.v = "" THEN Null
    ELSE IF ~StartsWith(authHeader.v, "Bearer ") THEN Null
    ELSE Str(SubSeq(authHeader.v, Len("Bearer ") + 1, Len(authHeader.v)))

----------------------------------------------------------------------------
(* The store: Prisma's `user` model over the `users` table *)

\* db.user.findUnique({ where: { id } })
findUniqueById(id) ==
    IF \E u \in store : u.id = id THEN CHOOSE u \in store : u.id = id ELSE Null

\* db.user.findUnique({ where: { email } })
findUniqueByEmail(email) ==
    IF \E u \in store : u.email = email THEN CHOOSE u \in store : u.email = email ELSE Null

\* a users table whose id is derived from the email, so that a second
\* registration of an email gets the id of the first
createdRowByEmail(data) ==
    Merge([id |-> IF data.email = "a@x.io" THEN Id(1) ELSE Id(2), hasBankAccount |-> FALSE,
           createdAt |-> Date(now), updatedAt |-> Date(now)], data)

\* the row db.user.create({ data }) inserts: id, hasBankAccount and the two
\* timestamps by default, optional columns left out of data stay null
createdRow(data) ==
    Merge([id |-> Id(nextId + 1), hasBankAccount |-> FALSE,
           createdAt |-> Date(now), updatedAt |-> Date(now)], data)

\* a users table without the unique index on email
createNeverRejects(data) == FALSE

\* email is @unique: create rejects a second row with the same email
createRejects(data) == \E u \in store : u.email = data.email

\* the row db.user.update({ where: { id }, data }) leaves: @updatedAt is written
\* along with the columns of data, and nothing is written for an empty data
updatedRow(row, data) ==
    IF data = EmptyObject THEN row ELSE Merge(row, Merge(data, [updatedAt |-> Date(now)]))

----------------------------------------------------------------------------
(* A connection's record *)

NoRequest ==
    [op |-> "none", pc |-> "done", args |-> EmptyObject, loc |-> EmptyObject,
     calls |-> <<>>, resp |-> Null]

\* a request that has just arrived
Arrived(op, args) ==
    [op |-> op, pc |-> "start", args |-> args, loc |-> EmptyObject,
     calls |-> <<>>, resp |-> Null]

\* the handler calls a collaborator (store, hasher, token service)
Called(rq, names) == [rq EXCEPT !.calls = @ \o names]

\* the handler returns a response
Return(rq, response) == [rq EXCEPT !.pc = "done", !.resp = response]

\* the handler keeps values in its locals
Let(rq, loc) == [rq EXCEPT !.loc = Merge(@, loc)]

\* the handler suspends on an await and resumes at pc
Await(rq, pc) == [rq EXCEPT !.pc = pc]

\* connection c's handler ran up to rq: it either sent its response, which is
\* recorded with the request and the store as it was before this step, or waits
Step(c, rq) ==
    IF rq.pc = "done"
        THEN /\ req' = [req EXCEPT ![c] = NoRequest]
             /\ sent' = Merge(rq, [conn |-> c, before |-> store])
        ELSE /\ req' = [req EXCEPT ![c] = rq]
             /\ sent' = Null

\* a catch block that answers with the text of what it caught
CaughtVerbose(rq, error) ==
    Return(Let(rq, [error |-> error]), createErrorResponse(error, 500))

\* catch (error) { console.error(...); return createErrorResponse(..., 500) }
Caught(rq, error) ==
    Return(Let(rq, [error |-> error]), createErrorResponse("Internal server error", 500))

\* what the collaborators throw
Failure == "Error"                  \* the store, the hasher or the signer fails
UniqueViolation == "P2002"          \* create: the email is taken
SyntaxError == "SyntaxError"        \* request.json(): the body is not JSON
RecordNotFound == "P2025"           \* update, delete: no row with that id

\* request.headers.get(name)
headersGet(headers, name) == IF Has(headers, name) THEN Str(headers[name]) ELSE Null

\* what the clients hold after being sent a token: they keep it while they have
\* room, and otherwise either drop it or drop an older one for it
Kept(token) ==
    IF Cardinality(issued \cup {token}) <= MaxTokens
        THEN {issued \cup {token}}
        ELSE {issued} \cup {(issued \ {t}) \cup {token} : t \in issued}

Pcs ==
    {"start", "done", "authorized", "findUnique", "hashPassword", "create",
     "comparePassword", "update", "delete"}

TypeOK ==
    /\ nextId \in 0..MaxUsers
    /\ now \in 0..MaxTime
    /\ secret \in Secrets
    /\ Cardinality(issued) <= MaxTokens
    /\ \A u \in store : u.id \in AllIds /\ u.hasBankAccount \in BOOLEAN
    /\ \A c \in Conns : req[c].pc \in Pcs /\ req[c].resp = Null
    /\ sent # Null => sent.pc = "done" /\ sent.resp # Null

Init ==
    /\ store = {}
    /\ nextId = 0
    /\ now = 0
    /\ secret = DefaultSecret
    /\ issued = {}
    /\ registered = {}
    /\ req = [c \in Conns |-> NoRequest]
    /\ sent = Null
    /\ ui = Null

----------------------------------------------------------------------------
(* POST /users: src/app/api/v1/users/route.ts *)

\* a create that stores the password as it was sent
createDataPlain(data, hashedPassword) == Pick(data, createUserSchemaKeys)

\* a create that always writes a date of birth
createDataBorn(data, hashedPassword) ==
    Merge(Pick(data, {"email", "firstName", "lastName", "phoneNumber", "address"}),
          [dateOfBirth |-> Date(IF Has(data, "dateOfBirth") THEN data.dateOfBirth ELSE ""),
           password |-> hashedPassword])

\* the `data` argument of db.user.create
createData(data, hashedPassword) ==
    Merge(Pick(data, {"email", "firstName", "lastName", "phoneNumber", "address"}),
          Merge(IF Has(data, "dateOfBirth") /\ data.dateOfBirth # ""
                    THEN [dateOfBirth |-> Date(data.dateOfBirth)]
                    ELSE EmptyObject,
                [password |-> hashedPassword]))

\* a handler that leaves duplicates to the store
emailNeverTaken(existingUser) == Null

\* the response to a findUnique by email that found `existingUser`, if it is final
emailTaken(existingUser) ==
    IF existingUser # Null
        THEN createErrorResponse("User with this email already exists", 400)
        ELSE Null

\* the 201 response
created(user, token) ==
    jsonResponse([user |-> Omit(user, {"password"}), token |-> token], 201)

\* the request arrives; the body is parsed, which throws if it is not JSON, and
\* validated
UsersPOST(c, body) ==
    /\ req[c] = NoRequest
    /\ LET rq == Arrived("POST /users", [body |-> body])
           errors == createUserSchemaErrors(body)
       IN  Step(c, IF body = Unparseable THEN Caught(rq, SyntaxError)
                   ELSE IF errors # <<>>
                       THEN Return(rq, handleValidationError(errors))
                       ELSE Await(Let(rq, [data |-> Pick(body, createUserSchemaKeys)]),
                                  "findUnique"))
    /\ UNCHANGED <<store, nextId, now, secret, issued, registered>>
    /\ UNCHANGED ui

\* await db.user.findUnique({ where: { email } }) resolves or rejects
UsersPOST_findUnique(c) ==
    /\ req[c].op = "POST /users"
    /\ req[c].pc = "findUnique"
    /\ \E ok \in BOOLEAN :
        LET rq == Called(req[c], <<"findUnique">>)
            taken == emailTaken(findUniqueByEmail(rq.loc.data.email))
        IN  Step(c, IF ~ok THEN Caught(rq, Failure)
                    ELSE IF taken # Null THEN Return(rq, taken)
                    ELSE Await(rq, "hashPassword"))
    /\ UNCHANGED <<store, nextId, now, secret, issued, registered>>
    /\ UNCHANGED ui

\* await hashPassword(password) resolves or rejects
UsersPOST_hashPassword(c) ==
    /\ req[c].op = "POST /users"
    /\ req[c].pc = "hashPassword"
    /\ \E ok \in BOOLEAN, salt \in Salts :
        LET rq == Called(req[c], <<"hashPassword">>)
        IN  Step(c, IF ~ok THEN Caught(rq, Failure)
                    ELSE Await(Let(rq, [hashedPassword |->
                                            hashPassword(rq.loc.data.password, salt)]),
                               "create"))
    /\ UNCHANGED <<store, nextId, now, secret, issued, registered>>
    /\ UNCHANGED ui

\* await db.user.create({ data }) resolves or rejects; then the token is signed
UsersPOST_create(c) ==
    /\ req[c].op = "POST /users"
    /\ req[c].pc = "create"
    /\ \/ nextId < MaxUsers
       \/ createRejects(createData(req[c].loc.data, req[c].loc.hashedPassword))
    /\ \E ok \in BOOLEAN, signed \in BOOLEAN :
        LET rq == Called(req[c], <<"create">>)
            data == createData(rq.loc.data, rq.loc.hashedPassword)
            user == createdRow(data)
            token == generateToken([userId |-> user.id, email |-> user.email])
        IN  IF ~ok \/ createRejects(data)
                THEN /\ Step(c, Caught(rq, IF ok THEN UniqueViolation ELSE Failure))
                     /\ UNCHANGED <<store, nextId, issued, registered>>
                ELSE /\ store' = store \cup {user}
                     /\ nextId' = nextId + 1
                     /\ registered' = registered \cup {[id |-> user.id, body |-> rq.args.body]}
                     /\ IF signed
                            THEN /\ Step(c, Return(Called(rq, <<"generateToken">>),
                                                   created(user, token)))
                                 /\ issued' \in Kept(token)
                            ELSE /\ Step(c, Caught(Called(rq, <<"generateToken">>), Failure))
                                 /\ UNCHANGED issued
    /\ UNCHANGED <<now, secret>>
    /\ UNCHANGED ui

----------------------------------------------------------------------------
(* POST /auth/login: src/app/api/v1/auth/login/route.ts *)

InvalidCredentials == createErrorResponse("Invalid email or password", 401)

\* a login that tells an unknown email apart
unknownEmailNotFound(user) ==
    IF user = Null THEN createErrorResponse("User not found", 404) ELSE Null

\* the response to a findUnique by email that found `user`, if it is final
unknownEmail(user) == IF user = Null THEN InvalidCredentials ELSE Null

\* the 200 response
loggedIn(user, token) ==
    jsonResponse([user |-> Omit(user, {"password"}), token |-> token], 200)

\* the request arrives; the body is parsed, which throws if it is not JSON, and
\* validated
LoginPOST(c, body) ==
    /\ req[c] = NoRequest
    /\ LET rq == Arrived("POST /auth/login", [body |-> body])
           errors == loginSchemaErrors(body)
       IN  Step(c, IF body = Unparseable THEN Caught(rq, SyntaxError)
                   ELSE IF errors # <<>>
                       THEN Return(rq, handleValidationError(errors))
                       ELSE Await(Let(rq, [data |-> Pick(body, loginSchemaKeys)]),
                                  "findUnique"))
    /\ UNCHANGED <<store, nextId, now, secret, issued, registered>>
    /\ UNCHANGED ui

\* await db.user.findUnique({ where: { email } }) resolves or rejects
LoginPOST_findUnique(c) ==
    /\ req[c].op = "POST /auth/login"
    /\ req[c].pc = "findUnique"
    /\ \E ok \in BOOLEAN :
        LET rq == Called(req[c], <<"findUnique">>)
            user == findUniqueByEmail(rq.loc.data.email)
        IN  Step(c, IF ~ok THEN Caught(rq, Failure)
                    ELSE IF unknownEmail(user) # Null
                        THEN Return(Let(rq, [user |-> user]), unknownEmail(user))
                    ELSE Await(Let(rq, [user |-> user]), "comparePassword"))
    /\ UNCHANGED <<store, nextId, now, secret, issued, registered>>
    /\ UNCHANGED ui

\* a login that stamps the user's row with the time of the login
LoginPOST_comparePasswordStamped(c) ==
    /\ req[c].op = "POST /auth/login"
    /\ req[c].pc = "comparePassword"
    /\ \E ok \in BOOLEAN, signed \in BOOLEAN :
        LET rq == Called(req[c], <<"comparePassword">>)
            user == rq.loc.user
            token == generateToken([userId |-> user.id, email |-> user.email])
        IN  IF ~ok
                THEN /\ Step(c, Caught(rq, Failure))
                     /\ UNCHANGED <<store, issued>>
            ELSE IF ~comparePassword(rq.loc.data.password, user.password)
                THEN /\ Step(c, Return(rq, InvalidCredentials))
                     /\ UNCHANGED <<store, issued>>
            ELSE IF ~signed
                THEN /\ Step(c, Caught(Called(rq, <<"generateToken">>), Failure))
                     /\ UNCHANGED <<store, issued>>
            ELSE /\ Step(c, Return(Called(rq, <<"generateToken">>), loggedIn(user, token)))
                 /\ issued' \in Kept(token)
                 /\ store' = {IF u.id = user.id THEN Merge(u, [lastLogin |-> Date(now)]) ELSE u
                                : u \in store}
    /\ UNCHANGED <<nextId, now, secret, registered>>
    /\ UNCHANGED ui

\* await comparePassword(password, user.password) resolves or rejects; then the
\* token is signed
LoginPOST_comparePassword(c) ==
    /\ req[c].op = "POST /auth/login"
    /\ req[c].pc = "comparePassword"
    /\ \E ok \in BOOLEAN, signed \in BOOLEAN :
        LET rq == Called(req[c], <<"comparePassword">>)
            user == rq.loc.user
            token == generateToken([userId |-> user.id, email |-> user.email])
        IN  IF ~ok
                THEN /\ Step(c, Caught(rq, Failure))
                     /\ UNCHANGED issued
            ELSE IF ~comparePassword(rq.loc.data.password, user.password)
                THEN /\ Step(c, Return(rq, InvalidCredentials))
                     /\ UNCHANGED issued
            ELSE IF ~signed
                THEN /\ Step(c, Caught(Called(rq, <<"generateToken">>), Failure))
                     /\ UNCHANGED issued
            ELSE /\ Step(c, Return(Called(rq, <<"generateToken">>), loggedIn(user, token)))
                 /\ issued' \in Kept(token)
    /\ UNCHANGED <<store, nextId, now, secret, registered>>
    /\ UNCHANGED ui

----------------------------------------------------------------------------
(* GET, PATCH, DELETE /users/{userId}: src/app/api/v1/users/[userId]/route.ts *)

\* the guard without its ownership check
authenticateOnly(rq, userId) ==
    LET authHeader == headersGet(rq.args.headers, "authorization")
        token == getTokenFromHeader(authHeader)
        payload == verifyToken(token.v)
        verified == Let(Called(rq, <<"getTokenFromHeader", "verifyToken">>),
                        [payload |-> payload])
    IN  IF Falsy(token)
            THEN Return(Called(rq, <<"getTokenFromHeader">>),
                        createErrorResponse("Authorization token required", 401))
        ELSE IF payload = Null
            THEN Return(verified, createErrorResponse("Invalid or expired token", 401))
        ELSE Await(verified, "authorized")

\* a guard that compares the subject of the token before it verifies the token
authorizeThenAuthenticate(rq, userId) ==
    LET authHeader == headersGet(rq.args.headers, "authorization")
        token == getTokenFromHeader(authHeader)
        payload == verifyToken(token.v)
        verified == Let(Called(rq, <<"getTokenFromHeader", "verifyToken">>),
                        [payload |-> payload])
    IN  IF Falsy(token)
            THEN Return(Called(rq, <<"getTokenFromHeader">>),
                        createErrorResponse("Authorization token required", 401))
        ELSE IF token.v \in DOMAIN Decode /\ Decode[token.v][1].userId # userId
            THEN Return(verified,
                        createErrorResponse("Forbidden: You can only access your own data", 403))
        ELSE IF payload = Null
            THEN Return(verified, createErrorResponse("Invalid or expired token", 401))
        ELSE Await(verified, "authorized")

\* a guard that hides from a verified user that the path is not their own
authenticateAndHide(rq, userId) ==
    LET authHeader == headersGet(rq.args.headers, "authorization")
        token == getTokenFromHeader(authHeader)
        payload == verifyToken(token.v)
        verified == Let(Called(rq, <<"getTokenFromHeader", "verifyToken">>),
                        [payload |-> payload])
    IN  IF Falsy(token)
            THEN Return(Called(rq, <<"getTokenFromHeader">>),
                        createErrorResponse("Authorization token required", 401))
        ELSE IF payload = Null
            THEN Return(verified, createErrorResponse("Invalid or expired token", 401))
        ELSE IF payload.userId # userId
            THEN Return(verified, createErrorResponse("User not found", 404))
        ELSE Await(verified, "authorized")

\* the guard shared by the three handlers; it runs without suspending
authenticateAndAuthorize(rq, userId) ==
    LET authHeader == headersGet(rq.args.headers, "authorization")
        token == getTokenFromHeader(authHeader)
        payload == verifyToken(token.v)
        verified == Let(Called(rq, <<"getTokenFromHeader", "verifyToken">>),
                        [payload |-> payload])
    IN  IF Falsy(token)
            THEN Return(Called(rq, <<"getTokenFromHeader">>),
                        createErrorResponse("Authorization token required", 401))
        ELSE IF payload = Null
            THEN Return(verified, createErrorResponse("Invalid or expired token", 401))
        ELSE IF payload.userId # userId
            THEN Return(verified,
                        createErrorResponse("Forbidden: You can only access your own data", 403))
        ELSE Await(verified, "authorized")

\* a select of every column
selectedAll(user) == user

\* the columns the handlers select: every column but password
selected(user) == Omit(user, {"password"})

\* a lookup that found nothing answered as a success with no user
FoundNothing == jsonResponse([user |-> Null], 200)

NotFound == createErrorResponse("User not found", 404)

\* the request arrives and passes the guard or not
GET(c, headers, userId) ==
    /\ req[c] = NoRequest
    /\ LET rq == authenticateAndAuthorize(
                    Arrived("GET", [headers |-> headers, userId |-> userId]), userId)
       IN  Step(c, IF rq.pc = "done" THEN rq ELSE Await(rq, "findUnique"))
    /\ UNCHANGED <<store, nextId, now, secret, issued, registered>>
    /\ UNCHANGED ui

\* await db.user.findUnique({ where: { id }, select }) resolves or rejects
GET_findUnique(c) ==
    /\ req[c].op = "GET"
    /\ req[c].pc = "findUnique"
    /\ \E ok \in BOOLEAN :
        LET rq == Called(req[c], <<"findUnique">>)
            user == findUniqueById(rq.args.userId)
        IN  Step(c, IF ~ok THEN Caught(rq, Failure)
                    ELSE IF user = Null THEN Return(rq, NotFound)
                    ELSE Return(rq, jsonResponse([user |-> selected(user)], 200)))
    /\ UNCHANGED <<store, nextId, now, secret, issued, registered>>
    /\ UNCHANGED ui

\* an update that writes the absent firstName as the empty string
updateDataBlank(d) == [firstName |-> IF Has(d, "firstName") THEN d.firstName ELSE ""]

\* an update that spreads phoneNumber and address only when they are truthy
updateDataTruthy(d) ==
    Merge(IF Has(d, "firstName") /\ d.firstName # ""
              THEN [firstName |-> d.firstName] ELSE EmptyObject,
    Merge(IF Has(d, "lastName") /\ d.lastName # ""
              THEN [lastName |-> d.lastName] ELSE EmptyObject,
    Merge(IF Has(d, "phoneNumber") /\ d.phoneNumber # ""
              THEN [phoneNumber |-> d.phoneNumber] ELSE EmptyObject,
    Merge(IF Has(d, "address") /\ d.address # ""
              THEN [address |-> d.address] ELSE EmptyObject,
          IF Has(d, "dateOfBirth") /\ d.dateOfBirth # ""
              THEN [dateOfBirth |-> Date(d.dateOfBirth)] ELSE EmptyObject))))

\* the `data` argument of db.user.update: the conditional spreads
updateData(d) ==
    Merge(IF Has(d, "firstName") /\ d.firstName # ""
              THEN [firstName |-> d.firstName] ELSE EmptyObject,
    Merge(IF Has(d, "lastName") /\ d.lastName # ""
              THEN [lastName |-> d.lastName] ELSE EmptyObject,
    Merge(IF Has(d, "phoneNumber")
              THEN [phoneNumber |-> d.phoneNumber] ELSE EmptyObject,
    Merge(IF Has(d, "address")
              THEN [address |-> d.address] ELSE EmptyObject,
          IF Has(d, "dateOfBirth") /\ d.dateOfBirth # ""
              THEN [dateOfBirth |-> Date(d.dateOfBirth)] ELSE EmptyObject))))

\* the request arrives and passes the guard or not; then the body is validated
PATCH(c, headers, userId, body) ==
    /\ req[c] = NoRequest
    /\ LET rq == authenticateAndAuthorize(
                    Arrived("PATCH", [headers |-> headers, userId |-> userId,
                                      body |-> body]), userId)
           errors == updateUserSchemaErrors(body)
       IN  Step(c, IF rq.pc = "done" THEN rq
                   ELSE IF body = Unparseable THEN Caught(rq, SyntaxError)
                   ELSE IF errors # <<>> THEN Return(rq, handleValidationError(errors))
                   ELSE Await(Let(rq, [data |-> Pick(body, updateUserSchemaKeys)]),
                              "findUnique"))
    /\ UNCHANGED <<store, nextId, now, secret, issued, registered>>
    /\ UNCHANGED ui

\* await db.user.findUnique({ where: { id } }) resolves or rejects
PATCH_findUnique(c) ==
    /\ req[c].op = "PATCH"
    /\ req[c].pc = "findUnique"
    /\ \E ok \in BOOLEAN :
        LET rq == Called(req[c], <<"findUnique">>)
            existingUser == findUniqueById(rq.args.userId)
        IN  Step(c, IF ~ok THEN Caught(rq, Failure)
                    ELSE IF existingUser = Null THEN Return(rq, NotFound)
                    ELSE Await(Let(rq, [existingUser |-> existingUser]), "update"))
    /\ UNCHANGED <<store, nextId, now, secret, issued, registered>>
    /\ UNCHANGED ui

\* an update that writes back the row the handler looked up, changed by data
PATCH_updateLookedUp(c) ==
    /\ req[c].op = "PATCH"
    /\ req[c].pc = "update"
    /\ \E ok \in BOOLEAN :
        LET rq == Called(req[c], <<"update">>)
            row == findUniqueById(rq.args.userId)
            updatedUser == updatedRow(rq.loc.existingUser, updateData(rq.loc.data))
        IN  IF ~ok \/ row = Null
                THEN /\ Step(c, Caught(rq, IF ok THEN RecordNotFound ELSE Failure))
                     /\ UNCHANGED store
                ELSE /\ store' = (store \ {row}) \cup {updatedUser}
                     /\ Step(c, Return(rq, jsonResponse([user |-> selected(updatedUser)], 200)))
    /\ UNCHANGED <<nextId, now, secret, issued, registered>>
    /\ UNCHANGED ui

\* await db.user.update({ where: { id }, data, select }) resolves or rejects
PATCH_update(c) ==
    /\ req[c].op = "PATCH"
    /\ req[c].pc = "update"
    /\ \E ok \in BOOLEAN :
        LET rq == Called(req[c], <<"update">>)
            row == findUniqueById(rq.args.userId)
            updatedUser == updatedRow(row, updateData(rq.loc.data))
        IN  IF ~ok \/ row = Null
                THEN /\ Step(c, Caught(rq, IF ok THEN RecordNotFound ELSE Failure))
                     /\ UNCHANGED store
                ELSE /\ store' = (store \ {row}) \cup {updatedUser}
                     /\ Step(c, Return(rq, jsonResponse([user |-> selected(updatedUser)], 200)))
    /\ UNCHANGED <<nextId, now, secret, issued, registered>>
    /\ UNCHANGED ui

\* the refusal without its bank-account check
deleteRefusedUnknown(existingUser) == IF existingUser = Null THEN NotFound ELSE Null

\* the response to a findUnique that found `existingUser`, if it is final
deleteRefused(existingUser) ==
    IF existingUser = Null THEN NotFound
    ELSE IF existingUser.hasBankAccount
        THEN createErrorResponse("Cannot delete user with an active bank account", 409)
    ELSE Null

\* the request arrives and passes the guard or not
DELETE(c, headers, userId) ==
    /\ req[c] = NoRequest
    /\ LET rq == authenticateAndAuthorize(
                    Arrived("DELETE", [headers |-> headers, userId |-> userId]), userId)
       IN  Step(c, IF rq.pc = "done" THEN rq ELSE Await(rq, "findUnique"))
    /\ UNCHANGED <<store, nextId, now, secret, issued, registered>>
    /\ UNCHANGED ui

\* await db.user.findUnique({ where: { id } }) resolves or rejects
DELETE_findUnique(c) ==
    /\ req[c].op = "DELETE"
    /\ req[c].pc = "findUnique"
    /\ \E ok \in BOOLEAN :
        LET existingUser == findUniqueById(req[c].args.userId)
            rq == Let(Called(req[c], <<"findUnique">>), [existingUser |-> existingUser])
            refused == deleteRefused(existingUser)
        IN  Step(c, IF ~ok THEN Caught(Called(req[c], <<"findUnique">>), Failure)
                    ELSE IF refused # Null THEN Return(rq, refused)
                    ELSE Await(rq, "delete"))
    /\ UNCHANGED <<store, nextId, now, secret, issued, registered>>
    /\ UNCHANGED ui

\* a delete that resolves when no row has the id, as deleteMany does
DELETE_deleteMany(c) ==
    /\ req[c].op = "DELETE"
    /\ req[c].pc = "delete"
    /\ \E ok \in BOOLEAN :
        LET rq == Called(req[c], <<"delete">>)
        IN  IF ~ok
                THEN /\ Step(c, Caught(rq, Failure))
                     /\ UNCHANGED store
                ELSE /\ store' = {u \in store : u.id # rq.args.userId}
                     /\ Step(c, Return(rq,
                            jsonResponse([message |-> "User deleted successfully"], 200)))
    /\ UNCHANGED <<nextId, now, secret, issued, registered>>
    /\ UNCHANGED ui

\* await db.user.delete({ where: { id } }) resolves or rejects
DELETE_delete(c) ==
    /\ req[c].op = "DELETE"
    /\ req[c].pc = "delete"
    /\ \E ok \in BOOLEAN :
        LET rq == Called(req[c], <<"delete">>)
            row == findUniqueById(rq.args.userId)
        IN  IF ~ok \/ row = Null
                THEN /\ Step(c, Caught(rq, IF ok THEN RecordNotFound ELSE Failure))
                     /\ UNCHANGED store
                ELSE /\ store' = store \ {row}
                     /\ Step(c, Return(rq,
                            jsonResponse([message |-> "User deleted successfully"], 200)))
    /\ UNCHANGED <<nextId, now, secret, issued, registered>>
    /\ UNCHANGED ui

----------------------------------------------------------------------------
(* The environment *)

\* half a token lifetime passes
Tick ==
    /\ now + TokenTTL \div 2 <= MaxTime
    /\ now' = now + TokenTTL \div 2
    /\ sent' = Null
    /\ UNCHANGED <<store, nextId, secret, issued, registered, req>>
    /\ UNCHANGED ui

\* the server is restarted with another JWT_SECRET
RotateSecret(key) ==
    /\ secret = DefaultSecret
    /\ key # secret
    /\ \A c \in Conns : req[c] = NoRequest
    /\ secret' = key
    /\ sent' = Null
    /\ UNCHANGED <<store, nextId, now, issued, registered, req>>
    /\ UNCHANGED ui

\* the bank links an account to a user: another writer of the users table
LinkBankAccount(id) ==
    /\ \E u \in store :
        /\ u.id = id
        /\ ~u.hasBankAccount
        /\ store' = (store \ {u}) \cup {[u EXCEPT !.hasBankAccount = TRUE]}
    /\ sent' = Null
    /\ UNCHANGED <<nextId, now, secret, issued, registered, req>>
    /\ UNCHANGED ui

----------------------------------------------------------------------------

\* requests served one at a time
Serial == {"c1"}

\* every request of every client; one without a signed token goes to the path of
\* the first user with the empty body, as the guard looks at neither
Next ==
    \/ \E c \in Serial, body \in RegisterBodies : UsersPOST(c, body)
    \/ \E c \in Serial : UsersPOST_findUnique(c)
    \/ \E c \in Serial : UsersPOST_hashPassword(c)
    \/ \E c \in Serial : UsersPOST_create(c)
    \/ \E c \in Serial, body \in LoginBodies : LoginPOST(c, body)
    \/ \E c \in Serial : LoginPOST_findUnique(c)
    \/ \E c \in Serial : LoginPOST_comparePassword(c)
    \/ \E c \in Serial, headers \in Headers(issued), userId \in AllIds :
            /\ headers \in Headers({}) => userId = Id(1)
            /\ GET(c, headers, userId)
    \/ \E c \in Serial : GET_findUnique(c)
    \/ \E c \in Serial, headers \in Headers(issued), userId \in AllIds, body \in UpdateBodies :
            /\ headers \in Headers({}) => userId = Id(1) /\ body = EmptyObject
            /\ PATCH(c, headers, userId, body)
    \/ \E c \in Serial : PATCH_findUnique(c)
    \/ \E c \in Serial : PATCH_update(c)
    \/ \E c \in Serial, headers \in Headers(issued), userId \in AllIds :
            /\ headers \in Headers({}) => userId = Id(1)
            /\ DELETE(c, headers, userId)
    \/ \E c \in Serial : DELETE_findUnique(c)
    \/ \E c \in Serial : DELETE_delete(c)
    \/ \E id \in AllIds : LinkBankAccount(id)

Spec == Init /\ [][Next]_vars

\* requests served one at a time while the clock runs and the secret is rotated
NextClock ==
    \/ \E c \in Serial : UsersPOST(c, Ann)
    \/ \E c \in Serial : UsersPOST_findUnique(c)
    \/ \E c \in Serial : UsersPOST_hashPassword(c)
    \/ \E c \in Serial : UsersPOST_create(c)
    \/ \E c \in Serial : LoginPOST(c, Pick(Ann, loginSchemaKeys))
    \/ \E c \in Serial : LoginPOST_findUnique(c)
    \/ \E c \in Serial : LoginPOST_comparePassword(c)
    \/ \E c \in Serial, headers \in Headers(issued), userId \in AllIds :
            GET(c, headers, userId)
    \/ \E c \in Serial : GET_findUnique(c)
    \/ \E c \in Serial, headers \in Headers(issued), userId \in AllIds :
            PATCH(c, headers, userId, EmptyObject)
    \/ \E c \in Serial : PATCH_findUnique(c)
    \/ \E c \in Serial : PATCH_update(c)
    \/ \E c \in Serial, headers \in Headers(issued), userId \in AllIds :
            DELETE(c, headers, userId)
    \/ \E c \in Serial : DELETE_findUnique(c)
    \/ \E c \in Serial : DELETE_delete(c)
    \/ Tick
    \/ \E key \in Secrets : RotateSecret(key)

SpecClock == Init /\ [][NextClock]_vars

\* the Authorization headers a caller may pass: none, or a scheme and a rest
Schemes ==
    {"", "Bearer ", "bearer ", "BEARER ", "Bearer", "Bearer  ", " Bearer ", "Basic ", "Token "}

Rests == {"", "abc", "junk", " t  ", "a b", "Bearer abc", "valid-jwt-token"}

AuthHeaders == {Null} \cup {Str(scheme \o rest) : scheme \in Schemes, rest \in Rests}

\* the claims a caller may have signed
Claims == {[userId |-> Id(1), email |-> "a@x.io"], [userId |-> Id(2), email |-> "b@x.io"]}

\* the result of a call of a helper of the token service
Result(name, args, result) ==
    [op |-> name, pc |-> "done", args |-> args, resp |-> result]

\* getTokenFromHeader(authHeader) is called
Call_getTokenFromHeader(authHeader) ==
    /\ sent' = Result("getTokenFromHeader", [authHeader |-> authHeader],
                      getTokenFromHeader(authHeader))
    /\ UNCHANGED <<store, nextId, now, secret, issued, registered, req>>
    /\ UNCHANGED ui

\* generateToken(payload) is called and its caller holds the token
Call_generateToken(payload) ==
    /\ sent' = Result("generateToken", [payload |-> payload], generateToken(payload))
    /\ issued' \in Kept(generateToken(payload))
    /\ UNCHANGED <<store, nextId, now, secret, registered, req>>
    /\ UNCHANGED ui

\* verifyToken(token) is called
Call_verifyToken(token) ==
    /\ sent' = Result("verifyToken", [token |-> token], verifyToken(token))
    /\ UNCHANGED <<store, nextId, now, secret, issued, registered, req>>
    /\ UNCHANGED ui

\* the token service on its own while the clock runs and the secret is rotated
NextAuth ==
    \/ \E authHeader \in AuthHeaders : Call_getTokenFromHeader(authHeader)
    \/ \E payload \in Claims : Call_generateToken(payload)
    \/ \E token \in issued \cup {"junk", ""} : Call_verifyToken(token)
    \/ Tick
    \/ \E key \in Secrets : RotateSecret(key)

SpecAuth == Init /\ [][NextAuth]_vars

\* String.prototype.repeat
RECURSIVE Repeat(_, _)
Repeat(str, n) == IF n = 0 THEN "" ELSE str \o Repeat(str, n - 1)

\* the registration payloads a caller may parse: every combination of an email
\* that is one or not, names and a password around their bounds, and a date of
\* birth that is absent, a full timestamp or not one; and payloads that lack a
\* required member
GoodEmails == {"test@example.com", "a@x.io", "b@x.io"}
BadEmails == {"invalid-email", "a.x.io", "@x.io", ""}
Names == {Repeat("a", n) : n \in {0, 1, MaxNameLen, MaxNameLen + 1}}
SomePasswords == {Repeat("p", n) : n \in {0, MinPasswordLen - 1, MinPasswordLen}}
GoodDates == {Birthday, "1990-01-01T00:00:00Z"}
BadDates == {"1990-01-01", "yesterday", ""}

Payloads ==
    LET full == {[email |-> e, firstName |-> f, lastName |-> l, password |-> p] :
                    e \in {"test@example.com", "invalid-email"}, f \in Names, l \in Names,
                    p \in SomePasswords}
                \cup {[email |-> e, firstName |-> "John", lastName |-> "Doe",
                       password |-> "password123"] : e \in GoodEmails \cup BadEmails}
    IN  full
        \cup {Merge(b, [dateOfBirth |-> d, phoneNumber |-> "", address |-> "1 Main St"]) :
                 b \in {b \in full : b.firstName = "a" /\ b.lastName = "a"},
                 d \in GoodDates \cup BadDates}
        \cup {Omit(Bob, {k}) : k \in createUserSchemaKeys}

\* createUserSchema.safeParse(body) is called
Call_createUserSchema(body) ==
    /\ sent' = Result("createUserSchema", [body |-> body], createUserSchemaErrors(body))
    /\ UNCHANGED <<store, nextId, now, secret, issued, registered, req>>
    /\ UNCHANGED ui

\* the schemas on their own
NextSchema == \E body \in Payloads : Call_createUserSchema(body)

SpecSchema == Init /\ [][NextSchema]_vars

\* registrations and profile updates served one at a time while the clock runs
NextProfile ==
    \/ \E c \in Serial, body \in {Ann, Bob} : UsersPOST(c, body)
    \/ \E c \in Serial : UsersPOST_findUnique(c)
    \/ \E c \in Serial : UsersPOST_hashPassword(c)
    \/ \E c \in Serial : UsersPOST_create(c)
    \/ \E c \in Serial, t \in issued, userId \in AllIds,
            body \in {Profile, [lastName |-> "Kim", dateOfBirth |-> Birthday]} :
            PATCH(c, [authorization |-> "Bearer " \o t], userId, body)
    \/ \E c \in Serial : PATCH_findUnique(c)
    \/ \E c \in Serial : PATCH_update(c)
    \/ \E id \in AllIds : LinkBankAccount(id)
    \/ Tick

SpecProfile == Init /\ [][NextProfile]_vars

\* requests on two connections, interleaved at their awaits; users update and
\* delete themselves
NextRace ==
    \/ \E c \in Conns : UsersPOST(c, Ann)
    \/ UsersPOST("c2", Bob)
    \/ \E c \in Conns : UsersPOST_findUnique(c)
    \/ \E c \in Conns : UsersPOST_hashPassword(c)
    \/ \E c \in Conns : UsersPOST_create(c)
    \/ \E c \in Conns, t \in issued :
            PATCH(c, [authorization |-> "Bearer " \o t], Decode[t][1].userId,
                  [firstName |-> "Zoe"])
    \/ \E c \in Conns : PATCH_findUnique(c)
    \/ \E c \in Conns : PATCH_update(c)
    \/ \E c \in Conns, t \in issued :
            DELETE(c, [authorization |-> "Bearer " \o t], Decode[t][1].userId)
    \/ \E c \in Conns : DELETE_findUnique(c)
    \/ \E c \in Conns : DELETE_delete(c)
    \/ \E id \in AllIds : LinkBankAccount(id)

SpecRace == Init /\ [][NextRace]_vars

\* two bodies with no field in common
Halves == {[firstName |-> "Zoe"], [lastName |-> "Kim"]}

\* one user, who updates the two names in requests on two connections, interleaved
\* at their awaits, while time passes
NextMerge ==
    \/ UsersPOST("c1", Ann)
    \/ UsersPOST_findUnique("c1")
    \/ UsersPOST_hashPassword("c1")
    \/ UsersPOST_create("c1")
    \/ \E c \in Conns, t \in issued, body \in Halves :
            PATCH(c, [authorization |-> "Bearer " \o t], Decode[t][1].userId, body)
    \/ \E c \in Conns : PATCH_findUnique(c)
    \/ \E c \in Conns : PATCH_update(c)
    \/ Tick

SpecMerge == Init /\ [][NextMerge]_vars

----------------------------------------------------------------------------
(* The forms: src/components/auth/SignupForm.tsx, and LoginForm *)

MaxSubmits == 2

Forms == {"LoginForm", "SignupForm"}

\* what the user types into a password field
Typed == {"password1", "password2"}

\* JSON.stringify(x)
stringify(x) == [json |-> x]

\* the endpoint a form posts to
endpoint(form) == IF form = "LoginForm" THEN "/api/v1/auth/login" ELSE "/api/v1/users"

\* {loading ? 'Creating Account...' : 'Create Account'}
label(form, loading) ==
    IF form = "LoginForm"
        THEN IF loading THEN "Logging in..." ELSE "Login"
        ELSE IF loading THEN "Creating Account..." ELSE "Create Account"

\* <button type="submit" disabled={loading}>
button(u) == [disabled |-> u.loading, label |-> label(u.form, u.loading)]

\* the fields of the form that handleSubmit compares, all of them `required`
fields(form) == IF form = "LoginForm" THEN {"password"} ELSE {"password", "confirmPassword"}

\* the state of a form as it is first rendered, with what it has done so far:
\* the submissions, the calls of fetch, how each submission ended, and the calls
\* of localStorage.setItem, onSuccess and router.push
useState(form, onSuccess) ==
    [form |-> form, onSuccess |-> onSuccess,
     formData |-> [k \in fields(form) |-> ""],
     loading |-> FALSE, error |-> "", pc |-> "idle", response |-> Null,
     submits |-> <<>>, fetched |-> <<>>, settled |-> <<>>, effects |-> <<>>]

\* a form that sends whatever the two password fields hold
mismatchIgnored(form, formData) == FALSE

\* formData.password !== formData.confirmPassword, which only the signup form has
mismatch(form, formData) ==
    form = "SignupForm" /\ formData.password # formData.confirmPassword

\* the responses fetch may resolve with: ok or not, with a body that is JSON or not
Responses(form) ==
    {[ok |-> TRUE, json |-> [token |-> "token1", user |-> [id |-> Id(1)]]],
     [ok |-> FALSE, json |-> [error |-> "Invalid credentials"]],
     [ok |-> TRUE, json |-> Unparseable],
     [ok |-> FALSE, json |-> Unparseable]}
    \cup IF form = "SignupForm" THEN {[ok |-> FALSE, json |-> EmptyObject]} ELSE {}

\* catch (error) { setError(...) } finally { setLoading(false) }
caught(u, message, outcome) ==
    [u EXCEPT !.error = message, !.loading = FALSE, !.pc = "idle", !.response = Null,
              !.settled = Append(@, outcome)]

\* what the form does with the body of an ok response
stored(u, data) ==
    <<[op |-> "localStorage.setItem", args |-> <<"token", data.token>>],
      [op |-> "localStorage.setItem", args |-> <<"user", stringify(data.user)>>],
      IF u.onSuccess THEN [op |-> "onSuccess", args |-> <<data.token, data.user>>]
                     ELSE [op |-> "router.push", args |-> <<"/dashboard">>]>>

\* the page renders one of the forms, with or without the onSuccess prop
render(form, onSuccess) ==
    /\ ui = Null
    /\ ui' = useState(form, onSuccess)
    /\ UNCHANGED <<store, nextId, now, secret, issued, registered, req, sent>>

\* onChange: setFormData({ ...formData, [k]: v })
setFormData(k, v) ==
    /\ ui # Null
    /\ k \in fields(ui.form)
    /\ ui.formData[k] # v
    /\ ui' = [ui EXCEPT !.formData[k] = v]
    /\ UNCHANGED <<store, nextId, now, secret, issued, registered, req, sent>>

\* the form is submitted, which the browser allows when the button is enabled and
\* the required fields are filled: handleSubmit up to its return or to await fetch
handleSubmit ==
    /\ ui # Null
    /\ ~button(ui).disabled
    /\ \A k \in fields(ui.form) : ui.formData[k] # ""
    /\ Len(ui.submits) < MaxSubmits
    /\ LET u == [ui EXCEPT !.submits = Append(@, ui.formData)]
       IN  ui' = IF mismatch(ui.form, ui.formData)
                     THEN caught(u, "Passwords do not match", "mismatch")
                     ELSE [u EXCEPT !.loading = TRUE, !.error = "", !.pc = "fetch",
                                    !.fetched = Append(@,
                                        [url |-> endpoint(ui.form),
                                         body |-> stringify(Omit(ui.formData,
                                                                 {"confirmPassword"}))])]
    /\ UNCHANGED <<store, nextId, now, secret, issued, registered, req, sent>>

\* await fetch(...) rejects, or resolves with a response
handleSubmit_fetch ==
    /\ ui # Null
    /\ ui.pc = "fetch"
    /\ \/ ui' = caught(ui, "Network error", "rejected")
       \/ \E response \in Responses(ui.form) :
            ui' = [ui EXCEPT !.pc = "json", !.response = response]
    /\ UNCHANGED <<store, nextId, now, secret, issued, registered, req, sent>>

\* await response.json() rejects or resolves with data; then the rest of the try
handleSubmit_json ==
    /\ ui # Null
    /\ ui.pc = "json"
    /\ LET data == ui.response.json
       IN  ui' = IF data = Unparseable
                     THEN caught(ui, "Unexpected end of JSON input", "error")
                 ELSE IF ~ui.response.ok
                     THEN caught(ui, IF Has(data, "error") THEN data.error
                                     ELSE "Signup failed", "error")
                 ELSE [ui EXCEPT !.effects = @ \o stored(ui, data),
                                 !.loading = FALSE, !.pc = "idle", !.response = Null,
                                 !.settled = Append(@, "ok")]
    /\ UNCHANGED <<store, nextId, now, secret, issued, registered, req, sent>>

\* a form in the browser, the server's responses taken as they come
NextForm ==
    \/ \E form \in Forms, onSuccess \in BOOLEAN : render(form, onSuccess)
    \/ \E k \in {"password", "confirmPassword"}, v \in Typed : setFormData(k, v)
    \/ handleSubmit
    \/ handleSubmit_fetch
    \/ handleSubmit_json

SpecForm == Init /\ [][NextForm]_vars

----------------------------------------------------------------------------
(* What the claims speak of *)

Guarded == {"GET", "PATCH", "DELETE"}

StoreCalls == {"findUnique", "create", "update", "delete"}

\* the collaborators the request rq called
CallsOf(rq) == {rq.calls[i] : i \in 1..Len(rq.calls)}

\* the bearer token a guarded request carries, as a `string | null`
BearerOf(rq) == getTokenFromHeader(headersGet(rq.args.headers, "authorization"))

\* the claims of the token a guarded request carries, or Null if it carries no
\* token or one that does not verify now
SubjectOf(rq) == IF Falsy(BearerOf(rq)) THEN Null ELSE verifyToken(BearerOf(rq).v)

\* a guarded request whose token verifies for another user than the path's
Foreign(rq) ==
    /\ rq.op \in Guarded
    /\ SubjectOf(rq) # Null
    /\ SubjectOf(rq).userId # rq.args.userId

Exists(id) == \E u \in store : u.id = id

\* the request carries a token that verifies for the user of its path
Owner(rq) == SubjectOf(rq) # Null /\ SubjectOf(rq).userId = rq.args.userId

----------------------------------------------------------------------------
(* C1 *)

\* C1: a GET, PATCH or DELETE on /users/{B} whose token verifies for a user A # B
\* is answered in the step it arrives with 403 "Forbidden: You can only access your
\* own data": it never waits on the store, it calls no store operation, the step
\* leaves the store as it was, and the response is this one value whether or not a
\* user B exists.
C1_ForeignTokenForbidden ==
    /\ \A c \in Conns : ~Foreign(req[c])
    /\ (sent # Null /\ Foreign(sent)) =>
            /\ sent.resp = [status |-> 403,
                            body |-> [error |-> "Forbidden: You can only access your own data"]]
            /\ CallsOf(sent) \cap StoreCalls = {}
            /\ sent.before = store

\* a 403 for a foreign token on the path of a user that exists
C1_Witness ==
    /\ sent # Null
    /\ Foreign(sent)
    /\ sent.resp.status = 403
    /\ Exists(sent.args.userId)

----------------------------------------------------------------------------
(* C2 *)

\* the token is not one that was ever signed, or was signed with another secret
\* than the server's, or has reached its expiry
Unverifiable(token) ==
    \/ token \notin DOMAIN Decode
    \/ Decode[token][3] # secret
    \/ now >= Decode[token][2] + TokenTTL

\* C2: in the step a GET, PATCH or DELETE arrives, a request without a bearer token
\* is answered 401 "Authorization token required" after the header was read and
\* nothing else; a request with a bearer token that is malformed, signed with
\* another secret or expired is answered 401 "Invalid or expired token" after the
\* token was verified and nothing else, whatever the user of its path; neither
\* waits on the store nor changes it.
C2_GuardOrder ==
    [][\A c \in Conns :
        (req[c] = NoRequest /\ (req'[c] # NoRequest \/ (sent' # Null /\ sent'.conn = c))) =>
            LET rq == IF req'[c] # NoRequest THEN req'[c] ELSE sent'
            IN  rq.op \in Guarded =>
                    /\ Falsy(BearerOf(rq)) =>
                          /\ rq.pc = "done"
                          /\ rq.resp = [status |-> 401,
                                        body |-> [error |-> "Authorization token required"]]
                          /\ rq.calls = <<"getTokenFromHeader">>
                          /\ store' = store
                    /\ (~Falsy(BearerOf(rq)) /\ Unverifiable(BearerOf(rq).v)) =>
                          /\ rq.pc = "done"
                          /\ rq.resp = [status |-> 401,
                                        body |-> [error |-> "Invalid or expired token"]]
                          /\ rq.calls = <<"getTokenFromHeader", "verifyToken">>
                          /\ store' = store]_vars

\* an expired token of one user on the path of another was answered 401
C2_Witness ==
    /\ sent # Null
    /\ sent.op \in Guarded
    /\ sent.resp = [status |-> 401, body |-> [error |-> "Invalid or expired token"]]
    /\ ~Falsy(BearerOf(sent))
    /\ BearerOf(sent).v \in DOMAIN Decode
    /\ Decode[BearerOf(sent).v][3] = secret
    /\ now >= Decode[BearerOf(sent).v][2] + TokenTTL
    /\ Decode[BearerOf(sent).v][1].userId # sent.args.userId

----------------------------------------------------------------------------
(* C3 *)

\* the handler caught nothing
NoError(rq) == ~Has(rq.loc, "error")

\* C3: a DELETE that passed the guard and whose lookup returned a record with
\* hasBankAccount = true is answered 409 "Cannot delete user with an active bank
\* account": it never goes on to the delete call, and the record is in the store,
\* as it was, after the response.
C3_BankAccountBlocksDelete ==
    /\ \A c \in Conns :
          (req[c].op = "DELETE" /\ req[c].pc = "delete") =>
              ~req[c].loc.existingUser.hasBankAccount
    /\ (/\ sent # Null
        /\ sent.op = "DELETE"
        /\ Has(sent.loc, "existingUser")
        /\ sent.loc.existingUser # Null
        /\ sent.loc.existingUser.hasBankAccount) =>
            /\ sent.resp = [status |-> 409,
                            body |-> [error |-> "Cannot delete user with an active bank account"]]
            /\ "delete" \notin CallsOf(sent)
            /\ sent.before = store
            /\ sent.loc.existingUser \in store

\* a 409 for the owner of a record with a bank account, which is still stored
C3_Witness ==
    /\ sent # Null
    /\ sent.op = "DELETE"
    /\ sent.resp.status = 409
    /\ Owner(sent)
    /\ \E u \in store : u.id = sent.args.userId /\ u.hasBankAccount

----------------------------------------------------------------------------
(* C4 *)

\* C4: a registration whose create is rejected by the store because a concurrent
\* registration inserted the same email after its lookup is answered like a
\* sequential duplicate, 400 "User with this email already exists".
C4_RaceAnsweredAsDuplicate ==
    (/\ sent # Null
     /\ sent.op = "POST /users"
     /\ Has(sent.loc, "error")
     /\ sent.loc.error = UniqueViolation) =>
        sent.resp = [status |-> 400, body |-> [error |-> "User with this email already exists"]]

----------------------------------------------------------------------------
(* C5 *)

\* C5: in every reachable state, whatever the interleaving of registrations,
\* updates and deletes on two connections, no two stored records have the same
\* email.
C5_EmailUnique == \A u \in store, v \in store : u.email = v.email => u = v

\* two users are stored and the create of a racing registration was rejected
C5_Witness ==
    /\ Cardinality(store) = 2
    /\ sent # Null
    /\ sent.op = "POST /users"
    /\ Has(sent.loc, "error")
    /\ sent.loc.error = UniqueViolation
    /\ \E u \in store : u.email = sent.args.body.email

----------------------------------------------------------------------------
(* C6 *)

\* C6: a registration with a valid body whose email belongs to a stored user is
\* answered 400 "User with this email already exists" once its lookup has returned:
\* it never goes on to hash the password or to create a record, it calls nothing
\* but the lookup, its response carries no token, and the store (the existing
\* record included) is as it was.
C6_DuplicateEmailRejected ==
    /\ \A c \in Serial :
          (req[c].op = "POST /users" /\ req[c].pc \in {"hashPassword", "create"}) =>
              ~\E u \in store : u.email = req[c].loc.data.email
    /\ (/\ sent # Null
        /\ sent.op = "POST /users"
        /\ Has(sent.loc, "data")
        /\ \E u \in sent.before : u.email = sent.args.body.email
        /\ ~(Has(sent.loc, "error") /\ sent.calls = <<"findUnique">>)) =>
            /\ sent.resp = [status |-> 400,
                            body |-> [error |-> "User with this email already exists"]]
            /\ sent.calls = <<"findUnique">>
            /\ sent.before = store

\* a second registration of a stored email was answered 400
C6_Witness ==
    /\ sent # Null
    /\ sent.op = "POST /users"
    /\ sent.resp.status = 400
    /\ \E u \in store : u.email = sent.args.body.email
    /\ sent.calls = <<"findUnique">>

----------------------------------------------------------------------------
(* C7 *)

\* the password user `id` registered with
Plain(id) == (CHOOSE r \in registered : r.id = id).body.password

\* the stored users a login names
Named(rq) == {u \in rq.before : u.email = rq.args.body.email}

\* C7: a login with a valid body that names no stored user, and a login that names
\* a stored user with another password than the one the user registered with, get
\* the same response, 401 {error: "Invalid email or password"}, with no token in it
\* and no token signed (unless a collaborator threw).
C7_LoginFailuresIndistinguishable ==
    (/\ sent # Null
     /\ sent.op = "POST /auth/login"
     /\ Has(sent.loc, "data")
     /\ NoError(sent)
     /\ \/ Named(sent) = {}
        \/ \E u \in Named(sent) : sent.args.body.password # Plain(u.id)) =>
        /\ sent.resp = [status |-> 401, body |-> [error |-> "Invalid email or password"]]
        /\ "generateToken" \notin CallsOf(sent)

\* a stored email with a wrong password was answered 401
C7_Witness ==
    /\ sent # Null
    /\ sent.op = "POST /auth/login"
    /\ sent.resp.status = 401
    /\ \E u \in Named(sent) : sent.args.body.password # Plain(u.id)

----------------------------------------------------------------------------
(* C8 *)

----------------------------------------------------------------------------
(* C9 *)

\* C9: no response body has a member besides user, token, error and message, and
\* the user object of a response has no password member.
C9_NoPasswordInResponses ==
    sent # Null =>
        /\ DOMAIN sent.resp.body \subseteq {"user", "token", "error", "message"}
        /\ Has(sent.resp.body, "user") => ~Has(sent.resp.body.user, "password")

\* a response with the user object of a stored record, which has a password
C9_Witness ==
    /\ sent # Null
    /\ Has(sent.resp.body, "user")
    /\ \E u \in store : u.id = sent.resp.body.user.id /\ Has(u, "password")

----------------------------------------------------------------------------
(* C10 *)

\* C10: a PATCH with the body {} that passed the guard and reaches its update of
\* a stored record is answered, unless a collaborator threw, 200 with that record,
\* and leaves the store as it was, the update timestamp included, whatever time
\* has passed since the record was written; so any number of them do.
C10_EmptyPatchChangesNothing ==
    (/\ sent # Null
     /\ sent.op = "PATCH"
     /\ sent.args.body = EmptyObject
     /\ "update" \in CallsOf(sent)
     /\ \E u \in sent.before : u.id = sent.args.userId
     /\ NoError(sent)) =>
        /\ sent.resp.status = 200
        /\ sent.before = store
        /\ \E u \in store : u.id = sent.args.userId /\ sent.resp.body.user = Omit(u, {"password"})

\* an empty PATCH was answered 200
C10_Witness ==
    /\ sent # Null
    /\ sent.op = "PATCH"
    /\ sent.args.body = EmptyObject
    /\ sent.resp.status = 200
    /\ "update" \in CallsOf(sent)
    /\ \E u \in store : u.id = sent.args.userId /\ u.updatedAt # Date(now)

----------------------------------------------------------------------------
(* C11 *)

\* the fields of the target a PATCH may write that its body supplies
Supplied(rq) == DOMAIN rq.args.body \cap updateUserSchemaKeys

\* the value a supplied field is written with
SuppliedValue(rq, k) ==
    IF k = "dateOfBirth" THEN Date(rq.args.body[k]) ELSE rq.args.body[k]

\* the response is that of a PATCH that succeeded
Patched(rq) == rq # Null /\ rq.op = "PATCH" /\ rq.resp.status = 200

\* the target of a PATCH before and after it
Target(rq, rows) == CHOOSE u \in rows : u.id = rq.args.userId

\* the columns in ks are the same in both rows, null ones included
SameOn(old, new, ks) ==
    \A k \in ks : /\ Has(old, k) <=> Has(new, k)
                  /\ Has(old, k) => old[k] = new[k]

\* every column of the users table
Columns ==
    {"id", "email", "firstName", "lastName", "phoneNumber", "address", "dateOfBirth",
     "password", "hasBankAccount", "createdAt", "updatedAt"}

\* C11 as stated: a successful PATCH writes each supplied field of the update
\* schema with the supplied value, every other column of the target keeps its
\* value, and every other record is as it was.
C11_PatchWritesOnlySupplied ==
    Patched(sent) =>
        LET old == Target(sent, sent.before)
            new == Target(sent, store)
        IN  /\ store \ {new} = sent.before \ {old}
            /\ \A k \in Supplied(sent) : Has(new, k) /\ new[k] = SuppliedValue(sent, k)
            /\ SameOn(old, new, Columns \ Supplied(sent))

\* C11 amended: a successful PATCH writes each supplied field of the update schema
\* with the supplied value and, when it supplies any, the update timestamp with
\* the time of the update; every other column of the target (id, email, password
\* digest, hasBankAccount and createdAt among them, whatever keys the body has)
\* keeps its value, and every other record is as it was.
C11_PatchWritesSuppliedAndUpdatedAt ==
    Patched(sent) =>
        LET old == Target(sent, sent.before)
            new == Target(sent, store)
        IN  /\ store \ {new} = sent.before \ {old}
            /\ \A k \in Supplied(sent) : Has(new, k) /\ new[k] = SuppliedValue(sent, k)
            /\ SameOn(old, new, Columns \ (Supplied(sent) \cup {"updatedAt"}))
            /\ new.updatedAt = IF Supplied(sent) = {} THEN old.updatedAt ELSE Date(now)

\* a PATCH with email and password keys succeeded after the clock advanced
C11_Witness ==
    /\ Patched(sent)
    /\ sent.args.body = Profile
    /\ Target(sent, sent.before).updatedAt # Target(sent, store).updatedAt
    /\ Target(sent, store).phoneNumber = ""
    /\ Cardinality(store) = 2

----------------------------------------------------------------------------
(* C12 *)

\* the response reports a failure
Failed(rq) == rq # Null /\ rq.resp.status \notin {200, 201}

\* C12: whenever a handler answers with a status other than 200 and 201, whatever
\* failed and at whatever step, the store is as it was before the handler's
\* responding step (the only step of a handler that writes).
C12_FailureLeavesStore == Failed(sent) => sent.before = store

----------------------------------------------------------------------------
(* C13 *)

\* C13: a handler that caught an exception, thrown by the store, the hasher, the
\* signer or the body parser at any step, has answered in that step with
\* 500 {error: "Internal server error"}: no request stays in flight with a caught
\* exception, and the text of the exception is not in the response.
C13_ExceptionsBecome500 ==
    /\ \A c \in Conns : NoError(req[c])
    /\ (sent # Null /\ ~NoError(sent)) =>
            sent.resp = [status |-> 500, body |-> [error |-> "Internal server error"]]

\* the signer threw at login, after the store and the hasher had answered
C13_Witness ==
    /\ sent # Null
    /\ sent.op = "POST /auth/login"
    /\ ~NoError(sent)
    /\ sent.calls = <<"findUnique", "comparePassword", "generateToken">>
    /\ sent.resp.status = 500

----------------------------------------------------------------------------
(* C14 *)

\* the statuses the interface table lists for each endpoint
Listed ==
    [k \in {"POST /users", "POST /auth/login", "GET", "PATCH", "DELETE"} |->
        CASE k = "POST /users" -> {201, 400, 500}
          [] k = "POST /auth/login" -> {200, 400, 401, 500}
          [] k = "GET" -> {200, 401, 403, 404, 500}
          [] k = "PATCH" -> {200, 400, 401, 403, 404, 500}
          [] k = "DELETE" -> {200, 401, 403, 404, 409, 500}]

\* C14: the status of every response is one the interface table lists for its
\* endpoint, and the body of every response with another status than 200 and 201
\* has exactly one member, error, which is a string.
C14_StatusesAsListed ==
    sent # Null =>
        /\ sent.resp.status \in Listed[sent.op]
        /\ Failed(sent) =>
              /\ DOMAIN sent.resp.body = {"error"}
              /\ sent.resp.body.error \in STRING

\* a DELETE was answered 409, the status only DELETE lists
C14_Witness ==
    /\ sent # Null
    /\ sent.op = "DELETE"
    /\ sent.resp.status = 409
    /\ DOMAIN sent.resp.body = {"error"}

----------------------------------------------------------------------------
(* C15 *)

\* the messages of the rules the body of a request violates, in its schema's order
Violations(rq) ==
    CASE rq.op = "POST /users" -> createUserSchemaErrors(rq.args.body)
      [] rq.op = "POST /auth/login" -> loginSchemaErrors(rq.args.body)
      [] rq.op = "PATCH" -> updateUserSchemaErrors(rq.args.body)

\* the handler of the request got to validate its body, which failed its schema
Invalid(rq) ==
    /\ rq # Null
    /\ rq.op \in {"POST /users", "POST /auth/login", "PATCH"}
    /\ rq.op = "PATCH" => Owner(rq)
    /\ rq.args.body # Unparseable
    /\ Violations(rq) # <<>>

\* C15 as stated: a body that fails its schema is answered 400 with, as its error
\* string, the messages of all violated rules in the schema's order joined with
\* ", ".
C15_ErrorIsJoinedMessages ==
    Invalid(sent) =>
        sent.resp = [status |-> 400, body |-> [error |-> Join(Violations(sent), ", ")]]

\* C15 amended: a body that fails its schema is answered 400 with, as its error
\* string, "Validation error: " followed by the messages of all violated rules in
\* the schema's order joined with ", "; so a registration with a bad email, an
\* empty first name and a short password, and a login with a bad email and an
\* empty password, are answered with all their messages.
C15_ErrorIsPrefixedJoinedMessages ==
    /\ Invalid(sent) =>
          sent.resp = [status |-> 400,
                       body |-> [error |-> "Validation error: "
                                             \o Join(Violations(sent), ", ")]]
    /\ (sent # Null /\ sent.op = "POST /users" /\ sent.args.body =
            [email |-> "a.x.io", firstName |-> "", lastName |-> "Lee", password |-> "pw"]) =>
          sent.resp.body.error =
            "Validation error: Invalid email address, First name is required, Password must be at least 8 characters long"
    /\ (sent # Null /\ sent.op = "POST /auth/login" /\ sent.args.body =
            [email |-> "a.x.io", password |-> ""]) =>
          sent.resp.body.error =
            "Validation error: Invalid email address, Password is required"

\* a registration that violates three rules was answered 400
C15_Witness ==
    /\ Invalid(sent)
    /\ sent.op = "POST /users"
    /\ Len(Violations(sent)) = 3
    /\ sent.resp.status = 400

----------------------------------------------------------------------------
(* C16 *)

\* the strings s with prefix \o s = h
After(h, prefix) ==
    {SubSeq(h, k, Len(h)) : k \in {k \in 1..(Len(h) + 1) : prefix \o SubSeq(h, k, Len(h)) = h}}

\* the last call was getTokenFromHeader
Extracted == sent # Null /\ sent.op = "getTokenFromHeader"

\* C16: getTokenFromHeader(h) is null when h is null, empty or is not "Bearer "
\* (this case, one space) followed by some string, and is otherwise that string
\* exactly, untrimmed and unvalidated: "Bearer  t  " gives " t  ", "Bearer "
\* gives "", "Bearer junk" gives "junk", and "bearer abc", "Bearer" and
\* " Bearer abc" give null.
C16_ExactSuffixAfterBearer ==
    Extracted =>
        LET h == sent.args.authHeader
            r == sent.resp
        IN  /\ IF h = Null \/ After(h.v, "Bearer ") = {} \/ h.v = ""
                  THEN r = Null
                  ELSE r # Null /\ After(h.v, "Bearer ") = {r.v}
            /\ h = Str("Bearer  t  ") => r = Str(" t  ")
            /\ h = Str("Bearer ") => r = Str("")
            /\ h = Str("Bearer junk") => r = Str("junk")
            /\ h \in {Str("bearer abc"), Str("Bearer"), Str(" Bearer abc"), Str("abc")} => r = Null

\* the header with two spaces and trailing spaces was read
C16_Witness ==
    /\ Extracted
    /\ sent.args.authHeader = Str("Bearer  t  ")
    /\ sent.resp = Str(" t  ")

----------------------------------------------------------------------------
(* C17 *)

\* C17: at any time and under either secret, a token signed for claims under the
\* server's secret less than 24 hours ago verifies to the userId and email that
\* were signed, so the token generateToken returns verifies to its payload; a
\* token signed under another secret than the server's, such as every token
\* issued before the secret was rotated, verifies to null.
C17_RoundTrip ==
    /\ \A claims \in Claims, iat \in 0..now, key \in Secrets :
          LET payload == verifyToken(Sign(claims, iat, key))
          IN  /\ (key = secret /\ now < iat + TokenTTL) =>
                    /\ payload # Null
                    /\ payload.userId = claims.userId
                    /\ payload.email = claims.email
              /\ key # secret => payload = Null
    /\ (sent # Null /\ sent.op = "generateToken") =>
          /\ sent.resp = Sign(sent.args.payload, now, secret)
          /\ verifyToken(sent.resp) = sent.args.payload
    /\ (sent # Null /\ sent.op = "verifyToken" /\ secret # DefaultSecret
            /\ sent.args.token \in issued
            /\ Decode[sent.args.token][3] = DefaultSecret) =>
          sent.resp = Null

\* after the rotation, a token that is less than 24 hours old failed verification
C17_Witness ==
    /\ sent # Null
    /\ sent.op = "verifyToken"
    /\ secret # DefaultSecret
    /\ sent.args.token \in issued
    /\ Decode[sent.args.token][3] = DefaultSecret
    /\ now < Decode[sent.args.token][2] + TokenTTL
    /\ sent.resp = Null

----------------------------------------------------------------------------
(* C18 *)

\* a request arrives on connection c in this step
Arrives(c) == req[c] = NoRequest /\ (req'[c] # NoRequest \/ (sent' # Null /\ sent'.conn = c))

\* the request that arrived on connection c, as this step leaves it
Landed(c) == IF req'[c] # NoRequest THEN req'[c] ELSE sent'

\* the request carries a token that some secret signed at some time
Signed(rq) ==
    /\ rq.op \in Guarded
    /\ ~Falsy(BearerOf(rq))
    /\ BearerOf(rq).v \in DOMAIN Decode

\* when and with which secret the token of the request was signed
IssuedAt(rq) == Decode[BearerOf(rq).v][2]
SignedWith(rq) == Decode[BearerOf(rq).v][3]

\* C18: a GET, PATCH or DELETE that arrives with a token signed 24 hours ago or
\* earlier is answered 401 "Invalid or expired token", so the guard lets a token
\* pass only within 24 hours of its issuance; one that arrives with a token signed
\* less than 24 hours ago with the server's secret is not answered 401, whatever
\* happened since to the user or to other tokens; and a token a client holds fails
\* verification only if it has expired or the secret is no longer the one that
\* signed it.
C18_ValidFor24Hours ==
    [][/\ \A c \in Conns :
            (Arrives(c) /\ Signed(Landed(c))) =>
                /\ now >= IssuedAt(Landed(c)) + TokenTTL =>
                      /\ Landed(c).pc = "done"
                      /\ Landed(c).resp = [status |-> 401,
                                           body |-> [error |-> "Invalid or expired token"]]
                /\ Landed(c).pc # "done" => now < IssuedAt(Landed(c)) + TokenTTL
                /\ (now < IssuedAt(Landed(c)) + TokenTTL /\ SignedWith(Landed(c)) = secret) =>
                      ~(Landed(c).pc = "done" /\ Landed(c).resp.status = 401)
       /\ \A t \in issued :
            verifyToken(t) = Null => (now >= Decode[t][2] + TokenTTL \/ Decode[t][3] # secret)]_vars

\* the owner of a stored record was answered 401 for a token that has expired
C18_Witness ==
    /\ sent # Null
    /\ Signed(sent)
    /\ SignedWith(sent) = secret
    /\ now >= IssuedAt(sent) + TokenTTL
    /\ Decode[BearerOf(sent).v][1].userId = sent.args.userId
    /\ Exists(sent.args.userId)
    /\ sent.resp.status = 401

----------------------------------------------------------------------------
(* C19 *)

\* the request carries a token that was signed for another user than its path's
Misdirected(rq) == Signed(rq) /\ Decode[BearerOf(rq).v][1].userId # rq.args.userId

\* C19 as stated: a GET, PATCH or DELETE on /users/{B} with a token that was
\* issued for a user A # B is answered 403 on arrival, whether the token verifies
\* or not.
C19_ForbiddenRegardlessOfValidity ==
    /\ \A c \in Conns : ~Misdirected(req[c])
    /\ (sent # Null /\ Misdirected(sent)) => sent.resp.status = 403

\* C19 amended: a GET, PATCH or DELETE on /users/{B} with a token that was issued
\* for a user A # B is answered on arrival, without a store call: 403 "Forbidden:
\* You can only access your own data" if the token verifies, and 401 "Invalid or
\* expired token" if it has expired or was signed with another secret.
C19_ForbiddenIfValid ==
    /\ \A c \in Conns : ~Misdirected(req[c])
    /\ (sent # Null /\ Misdirected(sent)) =>
          /\ sent.calls = <<"getTokenFromHeader", "verifyToken">>
          /\ sent.resp =
                IF Unverifiable(BearerOf(sent).v)
                    THEN [status |-> 401, body |-> [error |-> "Invalid or expired token"]]
                    ELSE [status |-> 403,
                          body |-> [error |-> "Forbidden: You can only access your own data"]]

\* a token that is 12 hours old was answered 403 on the path of another user
C19_Witness ==
    /\ sent # Null
    /\ Misdirected(sent)
    /\ now > IssuedAt(sent)
    /\ sent.resp.status = 403

----------------------------------------------------------------------------
(* C20 *)

\* the response is that of a registration that succeeded
Registered(rq) == rq # Null /\ rq.op = "POST /users" /\ rq.resp.status = 201

\* C20: a registration answered 201 added exactly one record, under an id no
\* record had, with hasBankAccount = false, the email and the names of the body,
\* the other fields of the body that are present (the date of birth as a date),
\* a null date of birth when the body has none, never the password of the body,
\* and both timestamps set to the time of the creation; the response is that
\* record without its password and a token signed for exactly the id and the
\* email of that record.
C20_RegistrationCreatesOneRecord ==
    Registered(sent) =>
        \E user \in store \ sent.before :
            LET body == sent.args.body
            IN  /\ store = sent.before \cup {user}
                /\ \A u \in sent.before : u.id # user.id
                /\ user.hasBankAccount = FALSE
                /\ user.email = body.email
                /\ user.firstName = body.firstName
                /\ user.lastName = body.lastName
                /\ \A k \in {"phoneNumber", "address"} :
                      /\ Has(user, k) <=> Has(body, k)
                      /\ Has(body, k) => user[k] = body[k]
                /\ Has(user, "dateOfBirth") <=> Has(body, "dateOfBirth")
                /\ Has(body, "dateOfBirth") => user.dateOfBirth = Date(body.dateOfBirth)
                /\ user.password # body.password
                /\ user.createdAt = Date(now)
                /\ user.updatedAt = Date(now)
                /\ sent.resp.body.user = Omit(user, {"password"})
                /\ DOMAIN sent.resp.body = {"user", "token"}
                /\ sent.resp.body.token \in DOMAIN Decode
                /\ Decode[sent.resp.body.token][1] = [userId |-> user.id, email |-> user.email]

\* a registration without a date of birth was answered 201 while another user
\* was stored
C20_Witness ==
    /\ Registered(sent)
    /\ ~Has(sent.args.body, "dateOfBirth")
    /\ Cardinality(store) = 2
    /\ \E u \in store : u.email = sent.args.body.email /\ ~Has(u, "dateOfBirth")

----------------------------------------------------------------------------
(* C21 *)

\* the last call was createUserSchema.safeParse
Parsed == sent # Null /\ sent.op = "createUserSchema"

\* C21: createUserSchema accepts a payload (reports no issue) if and only if it
\* has an email that is an email address, a firstName and a lastName of 1 to 100
\* characters each, a password of at least 8 characters and, if it has a
\* dateOfBirth, one that is a full timestamp; phoneNumber and address may be
\* absent or any string. So names of 100 characters and a password of 8 are
\* accepted, names of 0 or 101 characters and a password of 7 are rejected.
C21_RegistrationSchema ==
    Parsed =>
        LET body == sent.args.body
        IN  sent.resp = <<>> <=>
                /\ {"email", "firstName", "lastName", "password"} \subseteq DOMAIN body
                /\ body.email \in GoodEmails
                /\ Len(body.firstName) \in 1..100
                /\ Len(body.lastName) \in 1..100
                /\ Len(body.password) >= 8
                /\ Has(body, "dateOfBirth") => body.dateOfBirth \in GoodDates

\* a payload with names of 100 characters and a password of 8 was accepted
C21_Witness ==
    /\ Parsed
    /\ sent.resp = <<>>
    /\ Len(sent.args.body.firstName) = 100
    /\ Len(sent.args.body.lastName) = 100
    /\ Len(sent.args.body.password) = 8

----------------------------------------------------------------------------
(* C22 *)

\* the records this step removes: stored before it, no record of that id after it
Removed == {u \in store : \A v \in store' : v.id # u.id}

\* connection c's DELETE is answered 200 in this step
Deletes(c) ==
    /\ req[c].op = "DELETE"
    /\ sent' # Null
    /\ sent'.conn = c
    /\ sent'.resp.status = 200

\* C22: a step removes a record only if it is the step in which a DELETE for that
\* record is answered 200, and only if the record's hasBankAccount is false at that
\* moment, also when another writer set the flag after the DELETE looked the
\* record up.
C22_OnlyUnlinkedRemoved ==
    [][\A u \in Removed :
          /\ \E c \in Conns : Deletes(c) /\ req[c].args.userId = u.id
          /\ ~u.hasBankAccount]_vars

----------------------------------------------------------------------------
(* C23 *)

\* the guard let the request pass
Passed(rq) == rq # Null /\ rq.op \in Guarded /\ "verifyToken" \in CallsOf(rq)
                /\ rq.resp.status \notin {401, 403}

\* C23: a PATCH that passed the guard, for an id with no stored record, with a
\* body that is JSON, is answered 404 "User not found" whatever its body, unless
\* the store threw; so a PATCH answered 400 has a stored target.
C23_LookupBeforeSchema ==
    (/\ Passed(sent)
     /\ sent.op = "PATCH"
     /\ sent.args.body # Unparseable
     /\ NoError(sent)
     /\ \A u \in sent.before : u.id # sent.args.userId) =>
        sent.resp = [status |-> 404, body |-> [error |-> "User not found"]]

----------------------------------------------------------------------------
(* C24 *)

\* the record of the request's path was registered and is stored no more
Gone(rq) ==
    /\ \E r \in registered : r.id = rq.args.userId
    /\ \A u \in rq.before : u.id # rq.args.userId

\* a request on the path of a deleted user, with that user's token, which verifies
Orphan(rq) == rq # Null /\ rq.op \in Guarded /\ Owner(rq) /\ Gone(rq)

\* a login with a valid body whose email was registered and is stored no more
Stale(rq) ==
    /\ rq # Null
    /\ rq.op = "POST /auth/login"
    /\ Has(rq.loc, "data")
    /\ \E r \in registered : r.body.email = rq.args.body.email
    /\ Named(rq) = {}

\* a PATCH whose body fails the Update schema
Malformed(rq) == rq.op = "PATCH" /\ updateUserSchemaErrors(rq.args.body) # <<>>

----------------------------------------------------------------------------
(* C25 *)

\* the stored records that carry the email of the request's token
Successors(rq) == {u \in rq.before : u.email = SubjectOf(rq).email}

\* a guarded request with a token that verifies, signed for a user who was deleted
\* and whose email was registered again
Revived(rq) ==
    /\ rq # Null
    /\ rq.op \in Guarded
    /\ SubjectOf(rq) # Null
    /\ \E r \in registered : r.id = SubjectOf(rq).userId
    /\ \A u \in rq.before : u.id # SubjectOf(rq).userId
    /\ Successors(rq) # {}

\* every registration got an id no registration had before
FreshIds == Cardinality({r.id : r \in registered}) = nextId

----------------------------------------------------------------------------
(* C26 *)

\* a DELETE that passed the guard
Deleting(rq) == rq # Null /\ rq.op = "DELETE" /\ Owner(rq)

\* C26: of the DELETEs of one user that passed the guard, one is answered 200: the
\* one whose delete call finds the record, which removes that record and no other.
\* A DELETE that comes to its lookup after the record was removed is answered 404,
\* one that looked the record up before and comes to its delete call after is
\* answered 500, and neither is answered 200 nor changes the store. A DELETE whose
\* lookup found the record without a bank account and whose delete call finds it
\* is answered 200 unless the store threw; an id once removed is never given to
\* another record.
C26_OneDeleteSucceeds ==
    /\ FreshIds
    /\ (Deleting(sent) /\ sent.resp.status = 200) =>
            /\ \E u \in sent.before : u.id = sent.args.userId
            /\ store = sent.before \ {Target(sent, sent.before)}
    /\ (Deleting(sent) /\ Gone(sent)) =>
            /\ store = sent.before
            /\ sent.resp =
                   IF (Has(sent.loc, "existingUser") /\ sent.loc.existingUser # Null)
                          \/ ~NoError(sent)
                       THEN [status |-> 500, body |-> [error |-> "Internal server error"]]
                       ELSE [status |-> 404, body |-> [error |-> "User not found"]]
    /\ (/\ Deleting(sent)
        /\ ~Gone(sent)
        /\ "delete" \in CallsOf(sent)
        /\ NoError(sent)) => sent.resp.status = 200

\* a DELETE that found the record in its lookup came to its delete call after
\* another DELETE had removed the record, and was answered 500
C26_Witness ==
    /\ Deleting(sent)
    /\ Gone(sent)
    /\ Has(sent.loc, "existingUser")
    /\ sent.loc.existingUser # Null
    /\ sent.resp.status = 500
    /\ sent.loc.error = "P2025"

----------------------------------------------------------------------------
(* C27 *)

\* the two names of a row
NamesOf(row) == <<row.firstName, row.lastName>>

\* C27: a PATCH that succeeded wrote the fields it supplied and left every other
\* field of the record, the update timestamp aside, as the store held it just
\* before the write, not as the handler's lookup saw it: so when the record
\* already carries the value of the other of two PATCHes on disjoint fields, it
\* carries both values afterwards, in whichever order the two were written.
C27_DisjointPatchesCommute ==
    Patched(sent) =>
        LET old == Target(sent, sent.before)
            new == Target(sent, store)
        IN  /\ \A k \in Supplied(sent) : new[k] = sent.args.body[k]
            /\ SameOn(old, new, Columns \ (Supplied(sent) \cup {"updatedAt"}))
            /\ (sent.args.body = [lastName |-> "Kim"] /\ old.firstName = "Zoe") =>
                    NamesOf(new) = <<"Zoe", "Kim">>
            /\ (sent.args.body = [firstName |-> "Zoe"] /\ old.lastName = "Kim") =>
                    NamesOf(new) = <<"Zoe", "Kim">>

\* the second of two interleaved PATCHes succeeded: its lookup saw neither value,
\* the record carries both
C27_Witness ==
    /\ Patched(sent)
    /\ NamesOf(sent.loc.existingUser) = <<"Ann", "Lee">>
    /\ NamesOf(Target(sent, sent.before)) \in {<<"Zoe", "Lee">>, <<"Ann", "Kim">>}
    /\ NamesOf(Target(sent, store)) = <<"Zoe", "Kim">>

----------------------------------------------------------------------------
(* C28 *)

\* a guarded request whose Authorization header is the scheme and nothing more
Tokenless(rq) ==
    /\ rq # Null
    /\ rq # NoRequest
    /\ rq.op \in Guarded
    /\ rq.args.headers = [authorization |-> "Bearer "]

\* C28: from the header "Bearer " getTokenFromHeader returns the empty string,
\* and a GET, PATCH or DELETE with that header is answered, in the step it
\* arrives, 401 "Authorization token required", with verifyToken never called.
C28_EmptyBearerIsNoToken ==
    /\ getTokenFromHeader(Str("Bearer ")) = Str("")
    /\ \A c \in Conns : ~Tokenless(req[c])
    /\ Tokenless(sent) =>
            /\ sent.resp = [status |-> 401, body |-> [error |-> "Authorization token required"]]
            /\ sent.calls = <<"getTokenFromHeader">>

\* a PATCH with the header "Bearer " was answered
C28_Witness == Tokenless(sent) /\ sent.op = "PATCH" /\ sent.resp.status = 401

----------------------------------------------------------------------------
(* C29 *)

ReadOnly == {"POST /auth/login", "GET"}

\* this step is a step of a login or of a GET: one that arrives, goes on or answers
Reading ==
    \/ sent' # Null /\ sent'.op \in ReadOnly
    \/ \E c \in Conns : /\ req'[c] # req[c]
                        /\ req'[c] # NoRequest
                        /\ req'[c].op \in ReadOnly

\* C29: no step of a login or of a GET, whatever its outcome (200, 400, 401, 403,
\* 404, 500), changes the store, the ids the store gives out or the server's
\* secret: the server keeps nothing for the token a login signs.
C29_LoginAndGetReadOnly == [][Reading => UNCHANGED <<store, nextId, secret, now>>]_vars

\* a login was answered 200 with a token and the store is as it was before
C29_Witness ==
    /\ sent # Null
    /\ sent.op = "POST /auth/login"
    /\ sent.resp.status = 200
    /\ Has(sent.resp.body, "token")
    /\ sent.before = store
    /\ store # {}

----------------------------------------------------------------------------
(* C30 *)

\* how many of the form's submissions ended the way `outcomes` name
Ended(outcomes) == Cardinality({i \in DOMAIN ui.settled : ui.settled[i] \in outcomes})

\* the requests the form sent that have not settled: the form has neither caught
\* a rejection or an error nor come to the end of its handling of the response
Pending == Len(ui.fetched) - Ended({"rejected", "error", "ok"})

====
